---- MODULE Spec2Model ----
(***************************************************************************)
(* A model of cogs/plugins.py: the Plugin identifier, the download/cache   *)
(* protocol of Plugins.download_plugin, Plugins.load_plugin, the bulk      *)
(* startup task Plugins.initial_load_plugins, Plugins.populate_registry    *)
(* and Plugins.parse_user_input.                                           *)
(*                                                                         *)
(* Strings are sequences of tokens.  The tokens "/", "@", "." and "\n" are *)
(* the characters the code distinguishes; every other token stands for a   *)
(* non-empty run of ordinary characters (no delimiter, no newline).        *)
(***************************************************************************)
EXTENDS Integers, Sequences, FiniteSets, TLC

VARIABLES
    enable_plugins,   \* bot.config["enable_plugins"]
    config_plugins,   \* bot.config["plugins"]: the persisted list of identifiers
    config_updates,   \* number of completed bot.config.update() calls
    loaded_plugins,   \* Plugins.loaded_plugins
    ready_event,      \* Plugins._ready_event.is_set()
    ready_sets,       \* number of _ready_event.set() calls
    pc,               \* position of the initial_load_plugins task
    todo,             \* what the for loop of initial_load_plugins has left
    trail,            \* one record per loop iteration of initial_load_plugins
    fs,               \* the disk: directories, files, cache files
    last_dl,          \* what the latest download_plugin call did
    dl_prev,          \* per Plugin, its latest download_plugin call:
                      \* [called, force, fetched, complete]
    last_ld,          \* what the latest load_plugin call did
    registry,         \* Plugins.registry: short name -> descriptor
    reg_pc,           \* position of the populate_registry task
    last_parse,       \* what the latest parse_user_input call did
    refs              \* the Plugins constructed so far, with how they were made

vars == <<enable_plugins, config_plugins, config_updates, loaded_plugins,
          ready_event, ready_sets, pc, todo, trail, fs, last_dl, dl_prev,
          last_ld, registry, reg_pc, last_parse, refs>>

resolveVars == <<registry, reg_pc, last_parse>>

bulkVars == <<enable_plugins, config_plugins, config_updates, loaded_plugins,
              ready_event, ready_sets, pc, todo, trail>>

\* A failed parse (InvalidPluginError out of Plugin.from_string).
None == [none |-> TRUE]

\* The branch argument None of Plugin.__init__ (no token of a string).
NoBranch == <<"<None>">>

(***************************************************************************)
(* Generic helpers on sequences.                                           *)
(***************************************************************************)
Range(s) == {s[i] : i \in DOMAIN s}

Least(S) == CHOOSE x \in S : \A y \in S : x <= y

Slice(s, i, j) == IF i > j THEN <<>> ELSE SubSeq(s, i, j)

\* All sequences over S of length at most n.
RECURSIVE SeqsUpTo(_, _)
SeqsUpTo(S, n) ==
    IF n = 0 THEN {<<>>}
    ELSE LET shorter == SeqsUpTo(S, n - 1)
         IN  shorter \cup {Append(t, x) : t \in {u \in shorter : Len(u) = n - 1}, x \in S}

\* list.remove(x): the first occurrence; the caller checks x is there.
ListRemove(l, x) ==
    LET i == Least({k \in DOMAIN l : l[k] = x})
    IN  Slice(l, 1, i - 1) \o Slice(l, i + 1, Len(l))

(***************************************************************************)
(* class Plugin                                                            *)
(***************************************************************************)
DefaultBranch == <<"master">>

\* Plugin.__init__
Plugin(user, repo, name, branch) ==
    [user |-> user, repo |-> repo, name |-> name,
     branch |-> IF branch = NoBranch THEN DefaultBranch ELSE branch]

\* Plugin.__str__
PluginStr(p) == p.user \o <<"/">> \o p.repo \o <<"/">> \o p.name \o <<"@">> \o p.branch

\* Plugin.__eq__: the canonical strings are compared
PluginEq(p, q) == PluginStr(p) = PluginStr(q)

\* Plugin.__hash__: the hash of the tuple of the four fields; tuples that
\* differ have hashes that differ (but for a collision of the hash function)
PluginHash(p) == <<p.user, p.repo, p.name, p.branch>>

\* Where "$" matches: at the end of the string, or before a final newline.
\* A group "(.+?)" never holds a newline, so the match ends at MatchEnd(s)
\* and no newline may come before it.
MatchEnd(s) == IF Len(s) > 0 /\ s[Len(s)] = "\n" THEN Len(s) - 1 ELSE Len(s)

NoNewline(s, e) == \A i \in 1..e : s[i] # "\n"

\* re.match(r"^(.+?)/(.+?)/(.+?)@(.+?)$", s), the match ending at e: the
\* matches <<i, j, k>> with "/" at i and j and "@" at k, no group empty.
StrictMatches(s, e) ==
    IF ~NoNewline(s, e) THEN {}
    ELSE {m \in (1..e) \X (1..e) \X (1..e) :
            /\ m[1] >= 2 /\ s[m[1]] = "/"
            /\ m[2] >= m[1] + 2 /\ s[m[2]] = "/"
            /\ m[3] >= m[2] + 2 /\ s[m[3]] = "@"
            /\ e >= m[3] + 1}

\* re.match(r"^(.+?)/(.+?)/(.+?)(?:@(.+?))?$", s), the match ending at e:
\* the matches <<i, j, k>> with "/" at i and j and the name ending at k; the
\* optional group is taken when "@" follows k with something after it, else
\* k is the end.
LenientMatches(s, e) ==
    IF ~NoNewline(s, e) THEN {}
    ELSE {m \in (1..e) \X (1..e) \X (1..e) :
            /\ m[1] >= 2 /\ s[m[1]] = "/"
            /\ m[2] >= m[1] + 2 /\ s[m[2]] = "/"
            /\ m[3] >= m[2] + 1
            /\ \/ m[3] + 2 <= e /\ s[m[3] + 1] = "@"
               \/ m[3] = e}

\* The lazy groups make the regex engine return the first match in the
\* order: shortest user, then shortest repo, then shortest name.
FirstMatch(M) ==
    CHOOSE m \in M : \A o \in M :
        \/ m[1] < o[1]
        \/ m[1] = o[1] /\ m[2] < o[2]
        \/ m[1] = o[1] /\ m[2] = o[2] /\ m[3] <= o[3]

\* Plugin(*m.groups()) of the strict match m
StrictGroups(s, m, e) ==
    Plugin(Slice(s, 1, m[1] - 1), Slice(s, m[1] + 1, m[2] - 1),
           Slice(s, m[2] + 1, m[3] - 1), Slice(s, m[3] + 1, e))

\* Plugin(*m.groups()) of the lenient match m
LenientGroups(s, m, e) ==
    Plugin(Slice(s, 1, m[1] - 1), Slice(s, m[1] + 1, m[2] - 1),
           Slice(s, m[2] + 1, m[3]),
           IF m[3] = e THEN NoBranch ELSE Slice(s, m[3] + 2, e))

StrictResult(s, M) == IF M = {} THEN None ELSE StrictGroups(s, FirstMatch(M), MatchEnd(s))

LenientResult(s, M) == IF M = {} THEN None ELSE LenientGroups(s, FirstMatch(M), MatchEnd(s))

\* Plugin.from_string: a Plugin, or None for InvalidPluginError.
from_string(s, strict) ==
    IF strict THEN StrictResult(s, StrictMatches(s, MatchEnd(s)))
    ELSE LenientResult(s, LenientMatches(s, MatchEnd(s)))

(***************************************************************************)
(* Paths (pathlib) and the disk.  A path is the sequence of its parts; an  *)
(* absolute path starts with the part Root.  The disk is                   *)
(*   fs.dirs  : the directories that exist,                                *)
(*   fs.files : path -> [body, whole], the regular files that exist, whole *)
(*              being FALSE for a file whose write was cut short.          *)
(* The disk is keyed by resolved paths: abs_path, cache_path and           *)
(* plugin_path give the place the operating system resolves the path to.   *)
(***************************************************************************)
Root == <<"/">>

DotDot == <<".", ".">>

\* s cut at every "/" (empty pieces included).
RECURSIVE SplitSlash(_)
SplitSlash(s) ==
    IF \A i \in DOMAIN s : s[i] # "/" THEN <<s>>
    ELSE <<Slice(s, 1, Least({k \in DOMAIN s : s[k] = "/"}) - 1)>>
            \o SplitSlash(Slice(s, Least({k \in DOMAIN s : s[k] = "/"}) + 1, Len(s)))

IsRealPart(g) == g # <<>> /\ g # <<".">>

\* PurePath(s).parts: empty and "." components are dropped, ".." is kept.
Parts(s) ==
    IF s # <<>> /\ s[1] = "/" THEN <<Root>> \o SelectSeq(SplitSlash(s), IsRealPart)
    ELSE SelectSeq(SplitSlash(s), IsRealPart)

\* base / other, for the parts of other: an absolute right operand wins.
JoinParts(base, parts) ==
    IF parts # <<>> /\ parts[1] = Root THEN parts ELSE base \o parts

Join(base, s) == JoinParts(base, Parts(s))

\* What the operating system makes of the ".." parts of a path.
RECURSIVE NormAcc(_, _)
NormAcc(acc, rest) ==
    IF rest = <<>> THEN acc
    ELSE IF Head(rest) # DotDot THEN NormAcc(Append(acc, Head(rest)), Tail(rest))
    ELSE IF acc = <<Root>> THEN NormAcc(acc, Tail(rest))
    ELSE IF acc = <<>> \/ acc[Len(acc)] = DotDot
         THEN NormAcc(Append(acc, Head(rest)), Tail(rest))
    ELSE NormAcc(Slice(acc, 1, Len(acc) - 1), Tail(rest))

Norm(pth) == NormAcc(<<>>, pth)

\* Path(__file__).absolute().parent.parent
BotRoot == <<Root, <<"modmail">>>>

\* Plugin.path
path(p) ==
    Join(Join(Join(<<<<"plugins">>>>, p.user), p.repo), p.name \o <<"-">> \o p.branch)

\* Plugin.abs_path
abs_path(p) == Norm(JoinParts(BotRoot, path(p)))

\* Plugin.cache_path
cache_path(p) ==
    Norm(Join(BotRoot \o <<<<"temp">>, <<"plugins-cache">>>>,
              p.user \o <<"-">> \o p.repo \o <<"-">> \o p.branch \o <<".zip">>))

\* Plugin.ext_string
ext_string(p) ==
    <<"plugins", ".">> \o p.user \o <<".">> \o p.repo \o <<".">> \o p.name
        \o <<"-">> \o p.branch \o <<".">> \o p.name

Prefixes(pth) == {Slice(pth, 1, i) : i \in 1..Len(pth)}

Parent(pth) == Slice(pth, 1, Len(pth) - 1)

IsUnder(pth, dir) == Len(pth) >= Len(dir) /\ Slice(pth, 1, Len(dir)) = dir

\* Path.exists()
Exists(disk, pth) == pth \in disk.dirs \/ pth \in DOMAIN disk.files

\* Path.mkdir(parents=True, exist_ok=True) succeeds unless a regular file is
\* in the way.
MkdirOK(disk, pth) == Prefixes(pth) \cap DOMAIN disk.files = {}

Mkdir(disk, pth) == [disk EXCEPT !.dirs = @ \cup Prefixes(pth)]

\* Path.open("wb") creates or truncates the file; it needs the parent to be
\* a directory and the path not to be one.
OpenOK(disk, pth) == pth \notin disk.dirs /\ Parent(pth) \in disk.dirs

\* open("wb") and a write that ends (whole) or is cut short.
WriteFile(disk, pth, body, whole) ==
    [disk EXCEPT !.files =
        [q \in DOMAIN @ \cup {pth} |->
            IF q = pth THEN [body |-> body, whole |-> whole] ELSE @[q]]]

EmptyDisk == [dirs |-> Prefixes(BotRoot), files |-> [q \in {} |-> 0]]

(***************************************************************************)
(* Plugins.download_plugin                                                 *)
(*                                                                         *)
(* A response of the archive host is [status, decodable, text, zip,        *)
(* entries]: status "error" is a failed request; decodable says whether    *)
(* resp.text() decodes the payload (to text); zip says whether the payload *)
(* is a readable zip archive, of the file names entries.  The bytes kept   *)
(* of a payload are [zip, entries].  What the environment decides for one  *)
(* call is env = [resp, cache_write_ok, fail_at]: the response, whether    *)
(* f.write(raw) ends, and the selected entry whose copy the disk cuts      *)
(* short (0: none).                                                        *)
(*                                                                         *)
(* A call is followed in steps, each an operator that is handed what the   *)
(* lines before it computed; c is what the call found when it started.     *)
(* The result is [disk, log], log telling what the call did.               *)
(***************************************************************************)
NotFoundText == <<"Not Found">>

PayloadOf(resp) == [zip |-> resp.zip, entries |-> resp.entries]

NoPayload == [zip |-> FALSE, entries |-> <<>>]

\* line 155 left out: the call never returns early
SkipNever(dir_exists, force) == FALSE

\* line 155: the module directory is there and no re-fetch is forced
SkipDownload(dir_exists, force) == dir_exists /\ ~force

\* line 160 without "and not force": the cache file is taken whenever it is there
UseCacheAlways(cache_exists, force) == cache_exists

\* line 160: the archive is taken from the cache file
UseCache(cache_exists, force) == cache_exists /\ ~force

\* lines 173-181 without the comparison of line 178: every text is "Not Found"
ClassifyTextAsNotFound(resp) ==
    IF ~resp.decodable THEN "binary" ELSE "PluginNotFound"

\* lines 173-181: what the payload of a response is taken for
Classify(resp) ==
    IF ~resp.decodable THEN "binary"
    ELSE IF resp.text = NotFoundText THEN "PluginNotFound"
    ELSE "InvalidDownload"

\* ZipInfo.is_dir(): the file name ends with "/"
is_dir(filename) == filename # <<>> /\ filename[Len(filename)] = "/"

\* line 193 without the comparison with plugin.name
SelectedAnyModule(parts, name) == Len(parts) >= 3

\* line 193: the entries extracted for the plugin called name
Selected(parts, name) == Len(parts) >= 3 /\ parts[2] = name

IsSelected(filename, name) == Selected(Parts(filename), name)

\* line 194: plugin.abs_path / Path(*path.parts[2:])
StripTwo(parts) == Slice(parts, 3, Len(parts))

plugin_path(dir, filename) == Norm(JoinParts(dir, StripTwo(Parts(filename))))

Extracted(disk, created, ok) == [disk |-> disk, created |-> created, ok |-> ok]

\* lines 199-200, the parent directory made
CopyEntry(disk, made, target, filename, cut) ==
    IF ~OpenOK(disk, target) THEN Extracted(disk, made, FALSE)
    ELSE Extracted(WriteFile(disk, target, filename, ~cut), made \cup {target}, ~cut)

\* lines 195-200 for one selected entry, to be created at target
ExtractEntry(disk, target, filename, cut) ==
    IF is_dir(filename)
    THEN IF cut \/ ~MkdirOK(disk, target) THEN Extracted(disk, {}, FALSE)
         ELSE Extracted(Mkdir(disk, target), Prefixes(target) \ disk.dirs, TRUE)
    ELSE IF ~MkdirOK(disk, Parent(target)) THEN Extracted(disk, {}, FALSE)
         ELSE CopyEntry(Mkdir(disk, Parent(target)),
                        Prefixes(Parent(target)) \ disk.dirs, target, filename, cut)

AlsoCreated(created, rest) == [rest EXCEPT !.created = @ \cup created]

\* lines 191-200: the entries in archive order from the i-th on, nsel
\* selected entries done, up to the first failure
RECURSIVE ExtractFrom(_, _, _, _, _, _, _)
RECURSIVE ExtractRest(_, _, _, _, _, _, _)
ExtractFrom(disk, dir, name, entries, i, nsel, fail_at) ==
    IF i > Len(entries) THEN Extracted(disk, {}, TRUE)
    ELSE IF ~IsSelected(entries[i], name)
         THEN ExtractFrom(disk, dir, name, entries, i + 1, nsel, fail_at)
    ELSE ExtractRest(ExtractEntry(disk, plugin_path(dir, entries[i]), entries[i],
                                  nsel + 1 = fail_at),
                     dir, name, entries, i, nsel, fail_at)

ExtractRest(one, dir, name, entries, i, nsel, fail_at) ==
    IF ~one.ok THEN one
    ELSE AlsoCreated(one.created,
                     ExtractFrom(one.disk, dir, name, entries, i + 1, nsel + 1, fail_at))

\* No response: the call made no request.
NoResp ==
    [status |-> "none", decodable |-> FALSE, text |-> <<>>, zip |-> FALSE, entries |-> <<>>]

\* What a call meets: its arguments, the disk when it starts, and the answer
\* the archive host has for it.
Call(p, force, dir_existed, cache_existed, resp) ==
    [plugin |-> p, force |-> force, dir_existed |-> dir_existed,
     cache_existed |-> cache_existed, resp |-> resp]

\* How a call ends: the disk it leaves and the record of what it did.
Done(disk, c, outcome, fetched, read_cache, cache_written, opened, archive, created, handles) ==
    [disk |-> disk,
     log |-> [plugin |-> c.plugin, force |-> c.force, outcome |-> outcome,
              dir_existed |-> c.dir_existed, cache_existed |-> c.cache_existed,
              fetched |-> fetched, resp |-> IF fetched THEN c.resp ELSE NoResp,
              read_cache |-> read_cache, cache_written |-> cache_written, opened |-> opened,
              archive |-> archive, created |-> created, open_handles |-> handles]]

\* plugin_io: the BytesIO of line 183 or the cache file of line 161
Handle(fetched) == IF fetched THEN "BytesIO" ELSE "cache file"

\* lines 190-202 after the extraction x
Unpacked(x, c, payload, fetched) ==
    Done(x.disk, c, IF x.ok THEN "ok" ELSE "OSError", fetched, ~fetched, fetched, TRUE,
         payload, x.created, IF x.ok THEN {} ELSE {Handle(fetched)})

\* lines 190-202, given the bytes in plugin_io
Unpack(disk, c, dir, payload, whole, fail_at, fetched) ==
    IF ~(payload.zip /\ whole)
    THEN Done(disk, c, "BadZipFile", fetched, ~fetched, fetched, FALSE, NoPayload, {},
              {Handle(fetched)})
    ELSE Unpacked(ExtractFrom(disk, dir, c.plugin.name, payload.entries, 1, 0, fail_at),
                  c, payload, fetched)

\* lines 187-202, the directory of the cache file made
Store(disk, c, dir, cache, env) ==
    IF ~OpenOK(disk, cache)
    THEN Done(disk, c, "OSError", TRUE, FALSE, FALSE, FALSE, NoPayload, {}, {"BytesIO"})
    ELSE IF ~env.cache_write_ok
    THEN Done(WriteFile(disk, cache, PayloadOf(env.resp), FALSE), c, "OSError",
              TRUE, FALSE, TRUE, FALSE, NoPayload, {}, {"BytesIO"})
    ELSE Unpack(WriteFile(disk, cache, PayloadOf(env.resp), TRUE), c, dir,
                PayloadOf(env.resp), TRUE, env.fail_at, TRUE)

\* lines 164-202: the archive is fetched
Fetch(disk, c, dir, cache, env) ==
    IF env.resp.status = "error"
    THEN Done(disk, c, "NetworkError", TRUE, FALSE, FALSE, FALSE, NoPayload, {}, {})
    ELSE IF Classify(env.resp) # "binary"
    THEN Done(disk, c, Classify(env.resp), TRUE, FALSE, FALSE, FALSE, NoPayload, {}, {})
    ELSE IF ~MkdirOK(disk, Parent(cache))
    THEN Done(disk, c, "OSError", TRUE, FALSE, FALSE, FALSE, NoPayload, {}, {"BytesIO"})
    ELSE Store(Mkdir(disk, Parent(cache)), c, dir, cache, env)

\* lines 160-202, the module directory made
Obtain(disk, c, dir, cache, env) ==
    IF UseCache(Exists(disk, cache), c.force)
    THEN IF cache \in disk.dirs
         THEN Done(disk, c, "OSError", FALSE, FALSE, FALSE, FALSE, NoPayload, {}, {})
         ELSE Unpack(disk, c, dir, disk.files[cache].body, disk.files[cache].whole,
                     env.fail_at, FALSE)
    ELSE Fetch(disk, c, dir, cache, env)

\* lines 155-202
Download(disk, c, dir, cache, env) ==
    IF SkipDownload(c.dir_existed, c.force)
    THEN Done(disk, c, "skipped", FALSE, FALSE, FALSE, FALSE, NoPayload, {}, {})
    ELSE IF ~MkdirOK(disk, dir)
    THEN Done(disk, c, "OSError", FALSE, FALSE, FALSE, FALSE, NoPayload, {}, {})
    ELSE Obtain(Mkdir(disk, dir), c, dir, cache, env)

\* async def download_plugin(self, plugin, force=False)
download_plugin(disk, p, force, env) ==
    Download(disk,
             Call(p, force, Exists(disk, abs_path(p)), Exists(disk, cache_path(p)),
                  env.resp),
             abs_path(p), cache_path(p), env)

(***************************************************************************)
(* Plugins.load_plugin.  The environment decides pip = [stderr, failed]    *)
(* (whether the installer wrote to its error stream, whether it exited     *)
(* with a failure status) and load_ok (whether bot.load_extension raises   *)
(* no ExtensionError).  The result is [loaded, outcome, pip_spawned,       *)
(* loader_called].                                                         *)
(***************************************************************************)
EntryPoint(p) == Norm(Join(abs_path(p), p.name \o <<".py">>))

RequirementsTxt(p) == Norm(Join(abs_path(p), <<"requirements.txt">>))

\* line 228: the requirements step raises when the error stream is not empty
PipRaises(pip) == pip.stderr

Loaded(loaded, outcome, spawned, called) ==
    [loaded |-> loaded, outcome |-> outcome, pip_spawned |-> spawned,
     loader_called |-> called]

\* lines 205-247, has_entry and has_req telling which files exist
LoadSteps(loaded, p, has_entry, has_req, pip, load_ok) ==
    IF ~has_entry THEN Loaded(loaded, "NoEntryPoint", FALSE, FALSE)
    ELSE IF has_req /\ PipRaises(pip) THEN Loaded(loaded, "RequirementsFailed", TRUE, FALSE)
    ELSE IF ~load_ok THEN Loaded(loaded, "LoadFailed", has_req, TRUE)
    ELSE Loaded(loaded \cup {p}, "ok", has_req, TRUE)

\* line 205 left out: the entry point is taken to be there
EntryPointAssumed(disk, p) == TRUE

\* line 205
HasEntryPoint(disk, p) == Exists(disk, EntryPoint(p))

\* line 210
HasRequirements(disk, p) == Exists(disk, RequirementsTxt(p))

\* async def load_plugin(self, plugin)
load_plugin(disk, loaded, p, pip, load_ok) ==
    LoadSteps(loaded, p, HasEntryPoint(disk, p), HasRequirements(disk, p), pip, load_ok)

(***************************************************************************)
(* The environment: what the archive host may answer and what an archive   *)
(* may hold.                                                               *)
(***************************************************************************)
ErrorResp ==
    [status |-> "error", decodable |-> FALSE, text |-> <<>>, zip |-> FALSE, entries |-> <<>>]

TextResp(t) ==
    [status |-> "ok", decodable |-> TRUE, text |-> t, zip |-> FALSE, entries |-> <<>>]

\* a payload that is no text and no zip archive
JunkResp ==
    [status |-> "ok", decodable |-> FALSE, text |-> <<>>, zip |-> FALSE, entries |-> <<>>]

ZipResp(entries) ==
    [status |-> "ok", decodable |-> FALSE, text |-> <<>>, zip |-> TRUE, entries |-> entries]

\* an archive whose bytes happen to decode as text (an empty archive does)
DecodableZipResp ==
    [status |-> "ok", decodable |-> TRUE, text |-> <<"PK">>, zip |-> TRUE, entries |-> <<>>]

\* File names of archive entries; "w" is the archive's wrapper directory.
fModDir == <<"w", "/", "A", "/">>
fEntry == <<"w", "/", "A", "/", "A", ".py">>
fReq == <<"w", "/", "A", "/", "requirements.txt">>
fSubDir == <<"w", "/", "A", "/", "s", "/">>
fSubFile == <<"w", "/", "A", "/", "s", "/", "h">>
fSibling == <<"w", "/", "B", "/", "B", ".py">>
fSlip == <<"w", "/", "A", "/", ".", ".", "/", "x">>
fTop == <<"top">>

Filenames == <<fTop, fModDir, fEntry, fSubDir, fSubFile, fSibling, fSlip>>

\* the most entries an archive of the download specification holds
MaxEntries == 2

Increasing(a) == \A i \in 1..(Len(a) - 1) : a[i] < a[i + 1]

\* The archives: at most MaxEntries of the file names, in the order above.
Archives ==
    {[i \in DOMAIN a |-> Filenames[a[i]]] :
        a \in {b \in SeqsUpTo(DOMAIN Filenames, MaxEntries) : Increasing(b)}}

\* an archive holding the plugin A and its sibling B
TwoPluginArchive == <<fModDir, fEntry, fSibling>>

\* the answers of the download specification
FetchResponses ==
    {ErrorResp, JunkResp, TextResp(NotFoundText), ZipResp(TwoPluginArchive)}

\* the answers that are no archive of Archives
OtherResponses ==
    {ErrorResp, JunkResp, DecodableZipResp, TextResp(NotFoundText),
     TextResp(<<"Not Found", "\n">>), TextResp(<<"oops">>), TextResp(<<>>)}

\* the answers of the extraction specification
ExtractResponses == {ZipResp(a) : a \in Archives} \cup OtherResponses

\* How many copies of selected entries a response has to offer.
NumSelected(resp, p) ==
    Cardinality({i \in DOMAIN resp.entries : IsSelected(resp.entries[i], p.name)})

\* What the environment may decide for one download_plugin call.  The disk
\* faults are only listed where the call can meet them.
Envs(responses, p) ==
    {e \in [resp : responses, cache_write_ok : BOOLEAN, fail_at : 0..Len(Filenames)] :
        /\ e.fail_at <= NumSelected(e.resp, p)
        /\ ~e.cache_write_ok => Classify(e.resp) = "binary" /\ e.resp.status = "ok"
        /\ ~e.cache_write_ok => e.fail_at = 0}

(***************************************************************************)
(* Identifier strings and the Plugins they name.                           *)
(***************************************************************************)
sA == <<"u", "/", "r", "/", "A", "@", "m">>
sB == <<"u", "/", "r", "/", "B", "@", "m">>
sLegacyB == <<"u", "/", "r", "/", "B">>
sBad == <<"zz">>

pA == from_string(sA, TRUE)
pB == from_string(sB, TRUE)

\* No download_plugin call was made for the plugin yet.
NoCall == [called |-> FALSE, force |-> FALSE, fetched |-> FALSE, complete |-> FALSE]

NoDl == [outcome |-> "none"]

PrevOf(p) == IF p \in DOMAIN dl_prev THEN dl_prev[p] ELSE NoCall

\* Whether the latest call that went past line 155 ended its extraction.
Complete(prev, outcome) == IF outcome = "skipped" THEN prev.complete ELSE outcome = "ok"

\* The record kept of the download_plugin call that ended as r = [disk, log].
Recorded(p, r) ==
    /\ fs' = r.disk
    /\ last_dl' = [plugin |-> r.log.plugin, force |-> r.log.force,
                   outcome |-> r.log.outcome, dir_existed |-> r.log.dir_existed,
                   cache_existed |-> r.log.cache_existed, fetched |-> r.log.fetched,
                   resp |-> r.log.resp, read_cache |-> r.log.read_cache,
                   cache_written |-> r.log.cache_written, opened |-> r.log.opened,
                   archive |-> r.log.archive, created |-> r.log.created,
                   open_handles |-> r.log.open_handles,
                   prev |-> PrevOf(p), disk_changed |-> r.disk # fs]
    /\ dl_prev' = (p :> [called |-> TRUE, force |-> r.log.force,
                         fetched |-> r.log.fetched,
                         complete |-> Complete(PrevOf(p), r.log.outcome)]) @@ dl_prev

\* No load_plugin call yet; ext_ok is the set of Plugins for which
\* bot.load_extension has returned without raising.
NoLd == [outcome |-> "none", ext_ok |-> {}]

ExtensionLoaded(p, called, load_ok) == IF called /\ load_ok THEN {p} ELSE {}

\* The record kept of the load_plugin call for p that ended as ld.
LoadRecorded(p, ld, pip, load_ok) ==
    /\ loaded_plugins' = ld.loaded
    /\ last_ld' = IF ld.outcome = "not called" THEN last_ld
                  ELSE [plugin |-> p, outcome |-> ld.outcome,
                        pip_spawned |-> ld.pip_spawned,
                        loader_called |-> ld.loader_called,
                        pip |-> pip, load_ok |-> load_ok,
                        loaded_before |-> loaded_plugins,
                        ext_ok |-> last_ld.ext_ok
                                     \cup ExtensionLoaded(p, ld.loader_called, load_ok)]

\* Plugins.__init__, line 101
EmptyRegistry == [k \in {} |-> None]

NoParse == [outcome |-> "none"]

\* The registry task has not run and parse_user_input was not called.
NothingResolved ==
    /\ registry = EmptyRegistry
    /\ reg_pc = "pending"
    /\ last_parse = NoParse

(***************************************************************************)
(* The download specification: download_plugin called again and again, on  *)
(* two sibling plugins, with and without force, under every answer of the  *)
(* archive host and every disk fault.                                      *)
(***************************************************************************)
FetchPlugins == {pA, pB}

FetchInit ==
    /\ enable_plugins = FALSE
    /\ config_plugins = <<>>
    /\ config_updates = 0
    /\ loaded_plugins = {}
    /\ ready_event = FALSE
    /\ ready_sets = 0
    /\ pc = "off"
    /\ todo = <<>>
    /\ trail = <<>>
    /\ fs = EmptyDisk
    /\ last_dl = NoDl
    /\ dl_prev = [q \in {} |-> NoCall]
    /\ last_ld = NoLd
    /\ NothingResolved
    /\ refs = <<>>

DownloadCall ==
    \E p \in FetchPlugins, force \in BOOLEAN :
        \E env \in Envs(FetchResponses, p) :
            /\ Recorded(p, download_plugin(fs, p, force, env))
            /\ UNCHANGED <<bulkVars, last_ld, resolveVars, refs>>

FetchNext == DownloadCall

FetchSpec == FetchInit /\ [][FetchNext]_vars

(***************************************************************************)
(* The extraction specification: one download_plugin call, on a disk that  *)
(* is empty or holds an earlier download, the answer of the archive host   *)
(* being any archive of Archives or any of OtherResponses.                 *)
(***************************************************************************)
GoodEnv == [resp |-> ZipResp(TwoPluginArchive), cache_write_ok |-> TRUE, fail_at |-> 0]

\* the disk before the call: empty, or after A or B was downloaded
PriorDisks ==
    {EmptyDisk,
     download_plugin(EmptyDisk, pA, FALSE, GoodEnv).disk,
     download_plugin(EmptyDisk, pB, FALSE, GoodEnv).disk}

ExtractInit ==
    /\ enable_plugins = FALSE
    /\ config_plugins = <<>>
    /\ config_updates = 0
    /\ loaded_plugins = {}
    /\ ready_event = FALSE
    /\ ready_sets = 0
    /\ pc = "off"
    /\ todo = <<>>
    /\ trail = <<>>
    /\ fs \in PriorDisks
    /\ last_dl = NoDl
    /\ dl_prev = [q \in {} |-> NoCall]
    /\ last_ld = NoLd
    /\ NothingResolved
    /\ refs = <<>>

ExtractCall ==
    /\ last_dl = NoDl
    /\ \E p \in FetchPlugins, force \in BOOLEAN :
        \E env \in Envs(ExtractResponses, p) :
            /\ Recorded(p, download_plugin(fs, p, force, env))
            /\ UNCHANGED <<bulkVars, last_ld, resolveVars, refs>>

ExtractNext == ExtractCall

ExtractSpec == ExtractInit /\ [][ExtractNext]_vars

(***************************************************************************)
(* The load specification: load_plugin called again and again, on a disk   *)
(* that holds the module directories some downloads left, under every      *)
(* behaviour of the installer and of bot.load_extension.                   *)
(***************************************************************************)
\* an archive with the plugin A (which has requirements) and the plugin B
BulkArchive == <<fModDir, fEntry, fReq, fSibling>>

\* an archive in which A has requirements but no A.py, and B has its B.py
ReqOnlyArchive == <<fReq, fSibling>>

ZipEnv(archive) == [resp |-> ZipResp(archive), cache_write_ok |-> TRUE, fail_at |-> 0]

\* the disk after download_plugin(A) and download_plugin(B), archive answered
BothDownloaded(archive) ==
    download_plugin(download_plugin(EmptyDisk, pA, FALSE, ZipEnv(archive)).disk,
                    pB, FALSE, ZipEnv(archive)).disk

LoadDisks ==
    {EmptyDisk, BothDownloaded(BulkArchive), BothDownloaded(ReqOnlyArchive),
     BothDownloaded(TwoPluginArchive)}

LoadInit ==
    /\ enable_plugins = FALSE
    /\ config_plugins = <<>>
    /\ config_updates = 0
    /\ loaded_plugins = {}
    /\ ready_event = FALSE
    /\ ready_sets = 0
    /\ pc = "off"
    /\ todo = <<>>
    /\ trail = <<>>
    /\ fs \in LoadDisks
    /\ last_dl = NoDl
    /\ dl_prev = [q \in {} |-> NoCall]
    /\ last_ld = NoLd
    /\ NothingResolved
    /\ refs = <<>>

LoadCall ==
    /\ \E p \in FetchPlugins, perr \in BOOLEAN, pfail \in BOOLEAN, load_ok \in BOOLEAN :
        LoadRecorded(p, load_plugin(fs, loaded_plugins, p,
                                    [stderr |-> perr, failed |-> pfail], load_ok),
                     [stderr |-> perr, failed |-> pfail], load_ok)
    /\ UNCHANGED <<enable_plugins, config_plugins, config_updates, ready_event,
                   ready_sets, pc, todo, trail, fs, last_dl, dl_prev>>
    /\ UNCHANGED <<resolveVars, refs>>

LoadNext == LoadCall

LoadSpec == LoadInit /\ [][LoadNext]_vars

(***************************************************************************)
(* Plugins.__init__ and Plugins.initial_load_plugins (bulk startup).       *)
(*                                                                         *)
(* pc: "off" (no task: plugins disabled), "waiting" (the task awaits       *)
(* wait_for_connected), "loop" (in the for loop), "flush" (the event is    *)
(* set, config.update() is awaited), "done", and "crashed" (an exception   *)
(* left the coroutine).                                                    *)
(***************************************************************************)
\* an archive in which the plugin A has no A.py
NoEntryArchive == <<fModDir, fReq>>

BulkResponses ==
    {ErrorResp, TextResp(NotFoundText), ZipResp(BulkArchive), ZipResp(NoEntryArchive)}

BulkNames == {sA, sB, sLegacyB, sBad}

\* the most identifiers the persisted list starts with
MaxPlugins == 3

NoDuplicates(l) == \A i, j \in DOMAIN l : l[i] = l[j] => i = j

\* The step of bulk startup at which a load_plugin outcome counts as failed.
StepOf(outcome) ==
    IF outcome = "RequirementsFailed" THEN "install" ELSE "load"

Rec(name, plugin, migrated, failed_at, crashed, spawned, called) ==
    [name |-> name, plugin |-> plugin, migrated |-> migrated, failed_at |-> failed_at,
     crashed |-> crashed, pip_spawned |-> spawned, loader_called |-> called]

Out(config, loaded, disk, dl, ld, rec) ==
    [config |-> config, loaded |-> loaded, disk |-> disk, dl |-> dl, ld |-> ld,
     rec |-> rec]

FailedAt(dl_outcome, ld_outcome) ==
    IF dl_outcome \notin {"ok", "skipped"} THEN "fetch"
    ELSE IF ld_outcome # "ok" THEN StepOf(ld_outcome)
    ELSE "none"

\* load_plugin was not reached
NotCalled(loaded) == Loaded(loaded, "not called", FALSE, FALSE)

\* lines 138-145 after download_plugin ended as dl and load_plugin as ld;
\* list.remove raises ValueError when the string is not in the list, and
\* nothing in the coroutine catches that (rec.crashed).
AfterLoad(name, plugin, migrated, config, loaded, dl, ld) ==
    IF FailedAt(dl.log.outcome, ld.outcome) = "none"
    THEN Out(config, ld.loaded, dl.disk, dl.log, ld,
             Rec(name, plugin, migrated, "none", FALSE, ld.pip_spawned, ld.loader_called))
    ELSE IF name \in Range(config)
    THEN Out(ListRemove(config, name), loaded, dl.disk, dl.log, ld,
             Rec(name, plugin, migrated, FailedAt(dl.log.outcome, ld.outcome), FALSE,
                 ld.pip_spawned, ld.loader_called))
    ELSE Out(config, loaded, dl.disk, dl.log, ld,
             Rec(name, plugin, migrated, FailedAt(dl.log.outcome, ld.outcome), TRUE,
                 ld.pip_spawned, ld.loader_called))

\* lines 136-137 after download_plugin ended as dl
TryLoad(name, plugin, migrated, config, loaded, dl, pip, load_ok) ==
    IF dl.log.outcome \in {"ok", "skipped"}
    THEN AfterLoad(name, plugin, migrated, config, loaded, dl,
                   load_plugin(dl.disk, loaded, plugin, pip, load_ok))
    ELSE AfterLoad(name, plugin, migrated, config, loaded, dl, NotCalled(loaded))

\* lines 135-145
WithPlugin(name, plugin, migrated, config, loaded, disk, env, pip, load_ok) ==
    TryLoad(name, plugin, migrated, config, loaded,
            download_plugin(disk, plugin, FALSE, env), pip, load_ok)

\* lines 123-145, the name parsed as strict and as lenient
Parsed(name, strict, lenient, config, loaded, disk, env, pip, load_ok) ==
    IF strict # None
    THEN WithPlugin(name, strict, FALSE, config, loaded, disk, env, pip, load_ok)
    ELSE IF name \notin Range(config)
    THEN \* line 124 raises
         Out(config, loaded, disk, NoDl, NotCalled(loaded),
             Rec(name, None, FALSE, "parse", TRUE, FALSE, FALSE))
    ELSE IF lenient = None
    THEN \* lines 124-130
         Out(ListRemove(config, name), loaded, disk, NoDl, NotCalled(loaded),
             Rec(name, None, FALSE, "parse", FALSE, FALSE, FALSE))
    ELSE \* lines 124-133
         WithPlugin(name, lenient, TRUE,
                    Append(ListRemove(config, name), PluginStr(lenient)),
                    loaded, disk, env, pip, load_ok)

\* lines 121-145, one iteration of the for loop on plugin_name:
\* [config, loaded, disk, dl, rec]
Iteration(plugin_name, config, loaded, disk, env, pip, load_ok) ==
    Parsed(plugin_name, from_string(plugin_name, TRUE), from_string(plugin_name, FALSE),
           config, loaded, disk, env, pip, load_ok)

Init ==
    /\ enable_plugins \in BOOLEAN
    /\ config_plugins \in {l \in SeqsUpTo(BulkNames, MaxPlugins) : NoDuplicates(l)}
    /\ config_updates = 0
    /\ loaded_plugins = {}
    /\ ready_event = FALSE
    /\ ready_sets = 0
    /\ pc = IF enable_plugins THEN "waiting" ELSE "off"
    /\ todo = <<>>
    /\ trail = <<>>
    /\ fs = EmptyDisk
    /\ last_dl = NoDl
    /\ dl_prev = [q \in {} |-> NoCall]
    /\ last_ld = NoLd
    /\ NothingResolved
    /\ refs = <<>>

\* line 118 returns; line 120 copies the list
Connected ==
    /\ pc = "waiting"
    /\ pc' = "loop"
    /\ todo' = config_plugins
    /\ UNCHANGED <<enable_plugins, config_plugins, config_updates, loaded_plugins,
                   ready_event, ready_sets, trail, fs, last_dl, dl_prev>>
    /\ UNCHANGED <<last_ld, resolveVars, refs>>

\* The state after the iteration that ended as r.
Iterated(r, pip, load_ok) ==
    /\ config_plugins' = r.config
    /\ LoadRecorded(r.rec.plugin, [r.ld EXCEPT !.loaded = r.loaded], pip, load_ok)
    /\ trail' = Append(trail, r.rec)
    /\ todo' = Tail(todo)
    /\ pc' = IF r.rec.crashed THEN "crashed" ELSE "loop"
    /\ IF r.dl.outcome = "none"
       THEN fs' = r.disk /\ UNCHANGED <<last_dl, dl_prev>>
       ELSE Recorded(r.rec.plugin, [disk |-> r.disk, log |-> r.dl])

LoadIteration ==
    /\ pc = "loop"
    /\ todo # <<>>
    /\ \E resp \in BulkResponses, perr \in BOOLEAN, pfail \in BOOLEAN, load_ok \in BOOLEAN :
        Iterated(Iteration(Head(todo), config_plugins, loaded_plugins, fs,
                           [resp |-> resp, cache_write_ok |-> TRUE, fail_at |-> 0],
                           [stderr |-> perr, failed |-> pfail], load_ok),
                 [stderr |-> perr, failed |-> pfail], load_ok)
    /\ UNCHANGED <<enable_plugins, config_updates, ready_event, ready_sets>>
    /\ UNCHANGED <<resolveVars, refs>>

\* lines 147-151
SetReady ==
    /\ pc = "loop"
    /\ todo = <<>>
    /\ ready_event' = TRUE
    /\ ready_sets' = ready_sets + 1
    /\ pc' = "flush"
    /\ UNCHANGED <<enable_plugins, config_plugins, config_updates, loaded_plugins,
                   todo, trail, fs, last_dl, dl_prev>>
    /\ UNCHANGED <<last_ld, resolveVars, refs>>

\* line 152
Flush ==
    /\ pc = "flush"
    /\ config_updates' = config_updates + 1
    /\ pc' = "done"
    /\ UNCHANGED <<enable_plugins, config_plugins, loaded_plugins, ready_event,
                   ready_sets, todo, trail, fs, last_dl, dl_prev>>
    /\ UNCHANGED <<last_ld, resolveVars, refs>>

Next == Connected \/ LoadIteration \/ SetReady \/ Flush

Spec == Init /\ [][Next]_vars

(***************************************************************************)
(* Plugins.populate_registry and Plugins.parse_user_input.                 *)
(*                                                                         *)
(* A descriptor of the registry is [repository, branch, version_too_low]:  *)
(* branch is NoBranch when the descriptor has none, version_too_low says   *)
(* whether it has a bot_version above the version of the bot.  reg_pc is   *)
(* "pending" (the task has not ended), "done" or "failed" (the request or  *)
(* the JSON decoding raised).                                              *)
(***************************************************************************)
Descriptor(repository, branch, version_too_low) ==
    [repository |-> repository, branch |-> branch, version_too_low |-> version_too_low]

\* the short name the registries know
kC == <<"c">>

\* What the registry document may hold.
Snapshots ==
    {EmptyRegistry,
     (kC :> Descriptor(<<"a", "/", "b">>, NoBranch, FALSE)),
     (kC :> Descriptor(<<"a", "/", "b", "/", "x">>, <<"m">>, TRUE))}

\* line 115
PopulateRegistry ==
    /\ reg_pc = "pending"
    /\ \E snapshot \in Snapshots : registry' = snapshot
    /\ reg_pc' = "done"
    /\ UNCHANGED <<bulkVars, fs, last_dl, dl_prev, last_ld, last_parse, refs>>

\* lines 114-115 raise: the task ends and self.registry stays as it is
PopulateRegistryFails ==
    /\ reg_pc = "pending"
    /\ reg_pc' = "failed"
    /\ UNCHANGED <<bulkVars, fs, last_dl, dl_prev, last_ld, registry, last_parse, refs>>

\* line 259 left out: the call goes on whatever the event says
ReadyAssumed(ready) == FALSE

\* line 259
NotReady(ready) == ~ready

\* line 267 never true: the registry is not consulted
NeverInRegistry(name, reg) == FALSE

\* line 267
InRegistry(name, reg) == name \in DOMAIN reg

\* str.split("/", maxsplit=1): the pieces around the first "/", or the
\* string alone
SplitFirst(s) ==
    IF \A i \in DOMAIN s : s[i] # "/" THEN <<s>>
    ELSE <<Slice(s, 1, Least({k \in DOMAIN s : s[k] = "/"}) - 1),
           Slice(s, Least({k \in DOMAIN s : s[k] = "/"}) + 1, Len(s))>>

\* How a parse_user_input call ends: what it returns (None when it returns
\* nothing), and whether it went by the registry or by Plugin.from_string.
Answer(outcome, plugin, via) == [outcome |-> outcome, plugin |-> plugin, via |-> via]

\* lines 268-284, pieces being the split repository
FromRegistry(name, details, pieces, check_version) ==
    IF Len(pieces) # 2 THEN Answer("ValueError", None, "registry")
    ELSE IF check_version /\ details.version_too_low
    THEN Answer("version too low", None, "registry")
    ELSE Answer("plugin", Plugin(pieces[1], pieces[2], name, details.branch), "registry")

\* lines 287-298, parsed being Plugin.from_string(plugin_name)
FromString(parsed) ==
    IF parsed = None THEN Answer("invalid name", None, "parse")
    ELSE Answer("plugin", parsed, "parse")

\* async def parse_user_input(self, ctx, plugin_name, check_version=False);
\* line 256 names em, which nothing defines: NameError, nothing is sent
parse_user_input(enabled, ready, reg, plugin_name, check_version) ==
    IF ~enabled THEN Answer("NameError", None, "none")
    ELSE IF NotReady(ready) THEN Answer("still loading", None, "none")
    ELSE IF InRegistry(plugin_name, reg)
    THEN FromRegistry(plugin_name, reg[plugin_name],
                      SplitFirst(reg[plugin_name].repository), check_version)
    ELSE FromString(from_string(plugin_name, FALSE))

\* what users type
RawNames == {kC, <<"d">>, sA, sLegacyB}

\* The record kept of the parse_user_input call that ended as a.
ParseRecorded(plugin_name, check_version, a) ==
    last_parse' = [plugin_name |-> plugin_name, check_version |-> check_version,
                   enabled |-> enable_plugins, ready |-> ready_event,
                   snapshot |-> registry, pc |-> pc,
                   outcome |-> a.outcome, plugin |-> a.plugin, via |-> a.via]

ParseUserInput ==
    /\ \E plugin_name \in RawNames, check_version \in BOOLEAN :
        ParseRecorded(plugin_name, check_version,
                      parse_user_input(enable_plugins, ready_event, registry,
                                       plugin_name, check_version))
    /\ UNCHANGED <<bulkVars, fs, last_dl, dl_prev, last_ld, registry, reg_pc, refs>>

\* the persisted lists of the resolution specification
ResolveConfigs == {<<>>, <<sA>>, <<sLegacyB>>}

ResolveInit ==
    /\ enable_plugins \in BOOLEAN
    /\ config_plugins \in ResolveConfigs
    /\ config_updates = 0
    /\ loaded_plugins = {}
    /\ ready_event = FALSE
    /\ ready_sets = 0
    /\ pc = IF enable_plugins THEN "waiting" ELSE "off"
    /\ todo = <<>>
    /\ trail = <<>>
    /\ fs = EmptyDisk
    /\ last_dl = NoDl
    /\ dl_prev = [q \in {} |-> NoCall]
    /\ last_ld = NoLd
    /\ NothingResolved
    /\ refs = <<>>

ResolveNext ==
    \/ Connected
    \/ LoadIteration
    \/ SetReady
    \/ Flush
    \/ PopulateRegistry
    \/ PopulateRegistryFails
    \/ ParseUserInput

\* Bulk startup, the registry task and user commands, interleaved.
ResolveSpec == ResolveInit /\ [][ResolveNext]_vars

(***************************************************************************)
(* The identifier specification: a Plugin is made from a string (strict or *)
(* lenient parse) or from a registry descriptor; then a second one is made *)
(* from the registry, or from the canonical string of the first, as the    *)
(* next startup does with the persisted string.                            *)
(***************************************************************************)
Toks == {"c", "/", "@", "\n"}

\* the most tokens that follow "a/b/" in an identifier string
MaxTail == 4

\* the strings handed to Plugin.from_string
Idents ==
    SeqsUpTo(Toks, MaxTail)
        \cup {<<"a", "/", "b", "/">> \o t : t \in SeqsUpTo(Toks, MaxTail)}

Descriptors == {s[k] : s \in Snapshots \ {EmptyRegistry}, k \in {kC}}

Made(how, input, plugin) == [how |-> how, input |-> input, plugin |-> plugin]

\* The Plugin made, if one was made.
Kept(how, input, plugin) ==
    /\ plugin # None
    /\ refs' = Append(refs, Made(how, input, plugin))
    /\ UNCHANGED <<bulkVars, fs, last_dl, dl_prev, last_ld, resolveVars>>

\* Plugin.from_string(s, strict=True), as at line 122
ParseStrict ==
    /\ refs = <<>>
    /\ \E s \in Idents : Kept("strict", s, from_string(s, TRUE))

\* Plugin.from_string(s), as at lines 127 and 288
ParseLenient ==
    /\ refs = <<>>
    /\ \E s \in Idents : Kept("lenient", s, from_string(s, FALSE))

\* lines 268-284
Lookup ==
    /\ Len(refs) < 2
    /\ \E d \in Descriptors :
          Kept("registry", kC, FromRegistry(kC, d, SplitFirst(d.repository), FALSE).plugin)

\* line 122 on the string that str(plugin) persisted (line 133)
Reparse ==
    /\ Len(refs) = 1
    /\ Kept("reparse", PluginStr(refs[1].plugin),
            from_string(PluginStr(refs[1].plugin), TRUE))

IdentInit ==
    /\ enable_plugins = FALSE
    /\ config_plugins = <<>>
    /\ config_updates = 0
    /\ loaded_plugins = {}
    /\ ready_event = FALSE
    /\ ready_sets = 0
    /\ pc = "off"
    /\ todo = <<>>
    /\ trail = <<>>
    /\ fs = EmptyDisk
    /\ last_dl = NoDl
    /\ dl_prev = [q \in {} |-> NoCall]
    /\ last_ld = NoLd
    /\ NothingResolved
    /\ refs = <<>>

IdentNext == ParseStrict \/ ParseLenient \/ Lookup \/ Reparse

IdentSpec == IdentInit /\ [][IdentNext]_vars

(***************************************************************************)
(* Properties of bulk startup (Spec).                                      *)
(***************************************************************************)
\* The initial_load_plugins task has left its for loop.
BulkOver == pc \in {"flush", "done", "crashed"}

\* The initial_load_plugins task has ended.
BulkEnded == pc \in {"done", "crashed"}

\* C1: bulk startup isolates failures: whatever step fails for an entry of
\* the persisted list, every later entry is still attempted (the loop is
\* only left with nothing to do), and every entry whose steps all succeeded
\* is in the loaded set.
BulkIsolatesFailures ==
    /\ BulkOver => todo = <<>>
    /\ \A i \in DOMAIN trail :
          trail[i].failed_at = "none" => trail[i].plugin \in loaded_plugins

\* C2: the readiness flag is set exactly once, only after every configured
\* module was attempted, it stays set, and the configuration is flushed
\* exactly once: a bulk startup that has ended has set the flag once and
\* flushed once.
ReadySetOnceAndFlushed ==
    /\ ready_sets <= 1 /\ config_updates <= 1
    /\ ready_event <=> ready_sets = 1
    /\ ready_event => todo = <<>> /\ pc \in {"flush", "done"}
    /\ BulkEnded => ready_event /\ ready_sets = 1 /\ config_updates = 1

\* C3: after bulk startup, a module that failed at the fetch, install or
\* load step has neither the string that was persisted nor its canonical
\* string in the persisted list, and is not in the loaded set.
FailedModulesForgotten ==
    BulkEnded =>
        \A i \in DOMAIN trail :
            trail[i].failed_at \in {"fetch", "install", "load"} =>
                /\ trail[i].name \notin Range(config_plugins)
                /\ PluginStr(trail[i].plugin) \notin Range(config_plugins)
                /\ trail[i].plugin \notin loaded_plugins

\* C4: legacy migration: a migrated entry that loaded is in the persisted
\* list as its canonical string and no longer as the legacy string; an
\* unparseable entry is neither downloaded nor loaded; and after bulk
\* startup every entry of the persisted list parses in strict mode (so that
\* a second bulk startup migrates nothing).
MigrationLeavesStrictList ==
    /\ \A i \in DOMAIN trail :
          /\ trail[i].migrated /\ trail[i].failed_at = "none" =>
                /\ PluginStr(trail[i].plugin) \in Range(config_plugins)
                /\ trail[i].name \notin Range(config_plugins)
          /\ trail[i].plugin = None =>
                ~trail[i].pip_spawned /\ ~trail[i].loader_called
    /\ BulkEnded => \A i \in DOMAIN config_plugins :
                        from_string(config_plugins[i], TRUE) # None

(***************************************************************************)
(* Properties of download_plugin (FetchSpec, ExtractSpec).                 *)
(***************************************************************************)
Called == last_dl.outcome # "none"

\* C5: the module directory is never observed partially populated: when a
\* non-forced download_plugin returns at line 155 because the module
\* directory exists, the latest call that worked on that directory ended
\* its extraction (it did not fail).
SkippedDirIsComplete ==
    Called /\ last_dl.outcome = "skipped" => last_dl.prev.complete

CachePaths == {cache_path(p) : p \in FetchPlugins}

ValidatedPayloads ==
    {PayloadOf(r) : r \in {x \in FetchResponses :
                               x.status = "ok" /\ Classify(x) = "binary"}}

\* C6: every cache file holds the complete body of a download that passed
\* the validation of lines 173-181; no cache file is partially written.
CacheEntriesComplete ==
    \A q \in CachePaths \cap DOMAIN fs.files :
        fs.files[q].whole /\ fs.files[q].body \in ValidatedPayloads

\* C7: the second of two successive download_plugin(plugin, force=False)
\* calls returns at the check of line 155: it does not fetch (so the two
\* calls fetch at most once), does not read the cache and writes nothing.
SecondCallIsNoOp ==
    Called /\ ~last_dl.force /\ last_dl.prev.called /\ ~last_dl.prev.force =>
        /\ last_dl.outcome = "skipped"
        /\ ~last_dl.fetched /\ ~last_dl.read_cache /\ ~last_dl.cache_written
        /\ ~last_dl.opened /\ last_dl.created = {} /\ ~last_dl.disk_changed

\* Two non-forced calls on A were made, the first of which fetched.
SecondCallMade ==
    /\ Called /\ last_dl.plugin = pA /\ ~last_dl.force
    /\ last_dl.prev.called /\ ~last_dl.prev.force /\ last_dl.prev.fetched
    /\ last_dl.outcome = "skipped"

\* C8: download_plugin fetches if and only if force is given or neither the
\* module directory nor the cache file exists; a forced call whose download
\* passes the validation rewrites the cache file; a non-forced call for a
\* module whose directory is missing while the cache file exists (a sibling
\* was fetched) takes the archive from the cache and does not fetch.
FetchIffForcedOrNothingThere ==
    Called =>
        /\ last_dl.fetched <=>
              (last_dl.force \/ (~last_dl.dir_existed /\ ~last_dl.cache_existed))
        /\ last_dl.force /\ last_dl.resp.status = "ok" /\ ~last_dl.resp.decodable =>
              last_dl.cache_written
        /\ ~last_dl.force /\ ~last_dl.dir_existed /\ last_dl.cache_existed =>
              last_dl.read_cache /\ ~last_dl.fetched

\* A was re-fetched by force, then B, never downloaded before, was extracted
\* from the cache file without a fetch.
SiblingServedFromCache ==
    /\ Called /\ last_dl.plugin = pB /\ ~last_dl.force
    /\ ~last_dl.dir_existed /\ last_dl.cache_existed
    /\ last_dl.read_cache /\ ~last_dl.fetched /\ last_dl.outcome = "ok"
    /\ last_dl.created = {EntryPoint(pB)}
    /\ PrevOf(pA).force /\ PrevOf(pA).fetched /\ PrevOf(pA).complete

\* C9: a fetched response whose payload is the text "Not Found" ends the
\* call with PluginNotFound, any other decodable payload with
\* InvalidDownload, and neither is cached or opened as an archive; only a
\* payload that does not decode goes on to the cache file and the
\* extraction.
ResponseClassified ==
    Called /\ last_dl.fetched /\ last_dl.resp.status = "ok" =>
        /\ last_dl.resp.decodable /\ last_dl.resp.text = NotFoundText =>
              last_dl.outcome = "PluginNotFound"
        /\ last_dl.resp.decodable /\ last_dl.resp.text # NotFoundText =>
              last_dl.outcome = "InvalidDownload"
        /\ last_dl.resp.decodable =>
              ~last_dl.cache_written /\ ~last_dl.opened /\ last_dl.created = {}
        /\ ~last_dl.resp.decodable =>
              /\ last_dl.cache_written
              /\ last_dl.outcome \notin {"PluginNotFound", "InvalidDownload"}

\* The host answered "Not Found" and the call ended with PluginNotFound.
NotFoundAnswered ==
    /\ Called /\ last_dl.fetched
    /\ last_dl.resp = TextResp(NotFoundText)
    /\ last_dl.outcome = "PluginNotFound"

\* The entries of an archive that belong to the module called name: at least
\* 3 segments, the second being name.
ScopedEntries(entries, name) ==
    {i \in DOMAIN entries :
        Len(Parts(entries[i])) >= 3 /\ Parts(entries[i])[2] = name}

\* Where the entry filename belongs: its path without the first two
\* segments, taken from the module directory dir.
StrippedAt(dir, filename) ==
    Norm(dir \o SubSeq(Parts(filename), 3, Len(Parts(filename))))

PresentAt(disk, pth, filename) ==
    IF is_dir(filename) THEN pth \in disk.dirs
    ELSE pth \in DOMAIN disk.files
            /\ disk.files[pth] = [body |-> filename, whole |-> TRUE]

ScopedFor(disk, dir, name, entries, created, ok) ==
    /\ \A q \in created :
          \E i \in ScopedEntries(entries, name) :
              IsUnder(StrippedAt(dir, entries[i]), q)
    /\ ok => \A i \in ScopedEntries(entries, name) :
                PresentAt(disk, StrippedAt(dir, entries[i]), entries[i])

\* C10: extraction is scoped to the requested module: what the extraction
\* of an archive creates for the plugin named N is the entries with at least
\* 3 segments whose second segment is N, each at its path without the first
\* two segments taken from the module directory (and the directories leading
\* there); nothing is created for another entry, and an extraction that
\* ends has created every such entry.
ExtractionScoped ==
    Called /\ last_dl.opened =>
        ScopedFor(fs, abs_path(last_dl.plugin), last_dl.plugin.name,
                  last_dl.archive.entries, last_dl.created, last_dl.outcome = "ok")

\* An archive with A/A.py and the sibling's B/B.py, downloaded for A,
\* created A.py in the module directory and nothing else.
OnlyOwnEntryExtracted ==
    /\ Called /\ last_dl.plugin = pA /\ last_dl.outcome = "ok" /\ last_dl.fetched
    /\ last_dl.archive.entries = <<fEntry, fSibling>>
    /\ last_dl.created = {EntryPoint(pA)}

\* C19: every handle download_plugin opened (the cache file opened for
\* reading, the BytesIO, the ZipFile) is closed when the call ends, however
\* it ends.
HandlesClosed == Called => last_dl.open_handles = {}

\* C20: whatever the archive holds, every file and directory that the
\* extraction creates lies inside the module directory of the plugin.
ExtractionConfined ==
    Called => \A q \in last_dl.created : IsUnder(q, abs_path(last_dl.plugin))

(***************************************************************************)
(* Properties of load_plugin (LoadSpec).                                   *)
(***************************************************************************)
LoadCalled == last_ld.outcome # "none"

\* C11: with no requirements.txt no installer is spawned and the step
\* succeeds; with a requirements.txt the step ends as a failure (the
\* requirements could not be installed) if and only if the installer exited
\* with a failure status, and then bot.load_extension is not called and the
\* plugin is not added to the loaded set.
InstallFailsIffExitStatus ==
    LoadCalled /\ Exists(fs, EntryPoint(last_ld.plugin)) =>
        /\ ~Exists(fs, RequirementsTxt(last_ld.plugin)) =>
              ~last_ld.pip_spawned /\ last_ld.outcome # "RequirementsFailed"
        /\ Exists(fs, RequirementsTxt(last_ld.plugin)) =>
              /\ last_ld.pip_spawned
              /\ last_ld.outcome = "RequirementsFailed" <=> last_ld.pip.failed
        /\ last_ld.outcome = "RequirementsFailed" =>
              ~last_ld.loader_called /\ loaded_plugins = last_ld.loaded_before

\* C14: a Plugin is in loaded_plugins only if bot.load_extension has
\* returned for it; a load_plugin call that fails leaves the set as it was;
\* a call that succeeds adds its plugin and nothing else; and without the
\* entry point file neither the installer nor bot.load_extension is invoked.
LoadedOnlyAfterLoaderSuccess ==
    /\ loaded_plugins \subseteq last_ld.ext_ok
    /\ LoadCalled =>
        /\ last_ld.outcome \in {"NoEntryPoint", "RequirementsFailed", "LoadFailed", "ok"}
        /\ last_ld.outcome = "ok" =>
              /\ last_ld.loader_called /\ last_ld.load_ok
              /\ loaded_plugins = last_ld.loaded_before \cup {last_ld.plugin}
        /\ last_ld.outcome # "ok" => loaded_plugins = last_ld.loaded_before
        /\ ~Exists(fs, EntryPoint(last_ld.plugin)) =>
              /\ last_ld.outcome = "NoEntryPoint"
              /\ ~last_ld.pip_spawned /\ ~last_ld.loader_called

\* B is loaded; then load_plugin(A), whose A.py is missing, failed without
\* the installer or the loader being invoked, and B alone is loaded.
MissingEntryPointRejected ==
    /\ LoadCalled /\ last_ld.plugin = pA /\ last_ld.outcome = "NoEntryPoint"
    /\ Exists(fs, RequirementsTxt(pA))
    /\ ~last_ld.pip_spawned /\ ~last_ld.loader_called
    /\ loaded_plugins = {pB}

(***************************************************************************)
(* Properties of parse_user_input (ResolveSpec).                           *)
(***************************************************************************)
ParseCalled == last_parse.outcome # "none"

\* C12: with plugins enabled, a parse_user_input call made while the
\* readiness event is not set, wherever bulk startup stands, ends with the
\* "still loading" message: not with the "disabled" one, and it returns no
\* Plugin.  (The call is one step: it waits for nothing.)
StillLoadingBeforeReady ==
    ParseCalled /\ last_parse.enabled /\ ~last_parse.ready =>
        last_parse.outcome = "still loading" /\ last_parse.plugin = None

\* parse_user_input was called in the middle of the for loop of bulk startup.
AskedWhileLoading ==
    /\ ParseCalled /\ last_parse.enabled /\ ~last_parse.ready
    /\ last_parse.pc = "loop" /\ last_parse.plugin_name = sA
    /\ last_parse.outcome = "still loading"

\* C13: with plugins disabled, every parse_user_input call ends by sending
\* the "disabled" message and returns no Plugin, whatever the readiness
\* event and the input; it ends in no other error.
DisabledReported ==
    ParseCalled /\ ~last_parse.enabled =>
        last_parse.outcome = "disabled" /\ last_parse.plugin = None

NoSlash(s) == \A i \in DOMAIN s : s[i] # "/"

\* C18: once ready, parse_user_input goes by the registry if and only if
\* the name is a key of the registry at that moment: the Plugin then has
\* that name, the owner and repository around the first "/" of the
\* descriptor's repository, and the descriptor's branch or master;
\* otherwise it goes by lenient parsing.  As long as the registry task has
\* not ended, or when it failed, the registry is empty, and a short name
\* then gets the invalid-name message.
ResolvedByRegistryIffKey ==
    /\ reg_pc \in {"pending", "failed"} => registry = EmptyRegistry
    /\ ParseCalled /\ last_parse.enabled /\ last_parse.ready =>
        /\ last_parse.via = "registry" <=>
              last_parse.plugin_name \in DOMAIN last_parse.snapshot
        /\ last_parse.via = "registry" =>
              /\ last_parse.outcome \in {"plugin", "version too low"}
              /\ last_parse.outcome = "version too low" => last_parse.check_version
              /\ last_parse.outcome = "plugin" =>
                    /\ last_parse.plugin.name = last_parse.plugin_name
                    /\ NoSlash(last_parse.plugin.user)
                    /\ last_parse.plugin.user \o <<"/">> \o last_parse.plugin.repo
                          = last_parse.snapshot[last_parse.plugin_name].repository
                    /\ last_parse.plugin.branch =
                          IF last_parse.snapshot[last_parse.plugin_name].branch = NoBranch
                          THEN DefaultBranch
                          ELSE last_parse.snapshot[last_parse.plugin_name].branch
        /\ last_parse.via # "registry" =>
              /\ last_parse.via = "parse"
              /\ last_parse.plugin = from_string(last_parse.plugin_name, FALSE)
              /\ last_parse.outcome =
                    IF last_parse.plugin = None THEN "invalid name" ELSE "plugin"
        /\ last_parse.snapshot = EmptyRegistry /\ NoSlash(last_parse.plugin_name) =>
              last_parse.outcome = "invalid name"

\* The registry task failed, bulk startup went through all the same, and
\* the short name c got the invalid-name message.
ShortNameWithoutRegistry ==
    /\ ParseCalled /\ last_parse.enabled /\ last_parse.ready
    /\ reg_pc = "failed" /\ pc = "done"
    /\ last_parse.plugin_name = kC /\ last_parse.outcome = "invalid name"

(***************************************************************************)
(* Properties of class Plugin (IdentSpec).                                 *)
(***************************************************************************)
\* C15: equality and hashing agree: two Plugins are equal if and only if
\* their canonical strings are the same, and two equal Plugins have the
\* same hash, however they were made.
EqualRefsHashAlike ==
    \A i, j \in DOMAIN refs :
        /\ PluginEq(refs[i].plugin, refs[j].plugin)
              <=> PluginStr(refs[i].plugin) = PluginStr(refs[j].plugin)
        /\ PluginEq(refs[i].plugin, refs[j].plugin)
              => PluginHash(refs[i].plugin) = PluginHash(refs[j].plugin)

\* C16: the canonical string of the Plugin that the strict parse of s gives
\* is s.
StrictRoundTrip ==
    \A i \in DOMAIN refs :
        refs[i].how = "strict" => PluginStr(refs[i].plugin) = refs[i].input

\* C17: the strict parse of the canonical string of a Plugin made by the
\* lenient parse or from the registry succeeds and gives a Plugin with the
\* same owner, repository, name and branch.
CanonicalReparses ==
    \A i \in DOMAIN refs :
        refs[i].how \in {"lenient", "registry"} =>
            from_string(PluginStr(refs[i].plugin), TRUE) = refs[i].plugin

====
